---- MODULE Spec2Model ----
\* Model of the tournament structuring engine of KoenMertens/SportsTournament:
\* poule distribution, round-robin match generation, score entry and the
\* knockout-generation gate, translated from the Python sources.
EXTENDS Integers, Sequences, FiniteSets, TLC

\* ---------------------------------------------------------------- bounds
MaxDistTeams == 40       \* largest num_teams handed to the distributor
MinPerPoule == 2         \* smallest teams_per_poule argument tried
MaxPerPoule == 6         \* largest teams_per_poule argument tried
MaxGenTeams == 8         \* teams registered in the generation specification
MaxTeams == 6            \* teams registered in the lifecycle specification
MaxMatches == 6          \* rows of the matches table in the lifecycle specification
MaxGenerations == 2      \* generate_matches calls that create matches
MaxKnockoutTeams == 3    \* teams registered in the knockout-table specification
MaxStandingsTeams == 3   \* teams registered in the standings specification
MaxSets == 2             \* sets of a match in the save-and-reload specification
MaxSessionTeams == 3
MaxWinners == 4          \* winners handed to generate_knockout_round
MaxSeedPoules == 4       \* poules whose qualifiers are handed to the bracket generator
MaxSeedWins == 1         \* largest win count of a qualifier handed to the bracket generator

\* ---------------------------------------------------------------- values
None == -1               \* Python None in an Optional[int] column

TournamentTypes == {"default_tournament", "round_robin"}
\* the browser sessions that have the page of the tournament open
Sessions == {"s1", "s2"}
SportTypes == {"Tafeltennis", "Padel"}

\* aggregate scores a user enters in the two number inputs (Padel)
ScoreChoices == {<<1, 0>>, <<0, 1>>}
\* per-set score lists a user enters in the set inputs (Tafeltennis)
SetsChoices == {<< <<11, 9>> >>, << <<9, 11>> >>}
\* the sets entered in the save-and-reload specification
SetPairs == {<<11, 9>>, <<9, 11>>, <<10, 10>>, <<0, 11>>}
\* a drawn aggregate score, and a per-set list with one set won by each side
DrawnScoreChoices == {<<1, 1>>}
DrawnSetsChoices == {<< <<11, 9>>, <<9, 11>> >>}

VARIABLES
  tournament_type,     \* tournaments.tournament_type
  sport_type,          \* tournaments.sport_type
  teams,               \* ids of the teams table rows, ORDER BY id
  poules,              \* poules table: names of the rows, id = position
  matches,             \* matches table: rows, id = position
  generations,         \* number of generate_matches calls that created matches
  call,                \* the last operation invoked and its arguments
  err,                 \* exception raised by the last operation, or "none"
  returned,            \* list of matches returned by the last operation
  dist_result,         \* list of poules returned by the last distribute call
  poule_distribution,  \* local poule_distribution of the last generate_matches
  qualified,           \* qualifier list the last operation handed to the bracket generator
  roster,              \* list of teams handed to the last standings computation
  standings_result,    \* result of the last standings computation
  reloaded,            \* the Match object of the last save and what get_by_id then loads
  winners,             \* list of teams handed to the last generate_knockout_round
  pc                   \* position of each browser session in the generate handler

vars == <<tournament_type, sport_type, teams, poules, matches, generations,
          call, err, returned, dist_result, poule_distribution,
          qualified, roster, standings_result, reloaded, winners, pc>>

\* ------------------------------------------------- utils/poule_distribution
\* list(range(a, b))
range(a, b) == [i \in 1..(IF b > a THEN b - a ELSE 0) |-> a + i - 1]

\* the "remainder == 1" adjustment left out
adjust_counts_no_rem1(num_teams, teams_per_poule) ==
  LET nfp0 == num_teams \div teams_per_poule
      rem0 == num_teams % teams_per_poule
  IN  IF rem0 = 2 /\ nfp0 > 0
        THEN [num_full_poules |-> nfp0 - 1, remainder |-> 6]
        ELSE [num_full_poules |-> nfp0, remainder |-> rem0]

\* the "remainder == 2" adjustment left out
adjust_counts_no_rem2(num_teams, teams_per_poule) ==
  LET nfp0 == num_teams \div teams_per_poule
      rem0 == num_teams % teams_per_poule
  IN  IF rem0 = 1 /\ nfp0 > 0
        THEN [num_full_poules |-> 0, remainder |-> num_teams]
        ELSE [num_full_poules |-> nfp0, remainder |-> rem0]

\* lines 43-66: number of full poules and the remainder after the two adjustments
adjust_counts(num_teams, teams_per_poule) ==
  LET nfp0 == num_teams \div teams_per_poule
      rem0 == num_teams % teams_per_poule
      c1 == IF rem0 = 1 /\ nfp0 > 0
              THEN [num_full_poules |-> 0, remainder |-> num_teams]
              ELSE [num_full_poules |-> nfp0, remainder |-> rem0]
  IN  IF c1.remainder = 2 /\ c1.num_full_poules > 0
        THEN [num_full_poules |-> c1.num_full_poules - 1, remainder |-> 6]
        ELSE c1

\* lines 69-72: for _ in range(num_full_poules): append a poule of teams_per_poule
RECURSIVE full_poules(_, _, _, _)
full_poules(acc, team_idx, k, teams_per_poule) ==
  IF k <= 0 THEN [poules |-> acc, team_idx |-> team_idx]
  ELSE full_poules(Append(acc, range(team_idx, team_idx + teams_per_poule)),
                   team_idx + teams_per_poule, k - 1, teams_per_poule)

\* the last index repeated instead of advanced
poule_of_3_repeat(team_idx) == <<team_idx, team_idx + 1, team_idx + 1>>

\* line 79: the poule of 3 created in the remainder loop
poule_of_3(team_idx) == <<team_idx, team_idx + 1, team_idx + 2>>

\* lines 75-92: while team_idx < num_teams
RECURSIVE remainder_loop(_, _, _)
remainder_loop(acc, team_idx, num_teams) ==
  IF ~(team_idx < num_teams) THEN acc
  ELSE LET remaining == num_teams - team_idx IN
       IF remaining >= 3
         THEN remainder_loop(Append(acc, poule_of_3(team_idx)), team_idx + 3, num_teams)
       ELSE IF remaining = 2
         THEN Append(acc, <<team_idx, team_idx + 1>>)
       ELSE IF Len(acc) > 0
         THEN [acc EXCEPT ![Len(acc)] = Append(@, team_idx)]
         ELSE Append(acc, <<team_idx>>)

\* "num_teams < 2": a minimum of two teams
too_few_teams_lt2(num_teams) == num_teams < 2

\* line 32: if num_teams < 3
too_few_teams(num_teams) == num_teams < 3

\* distribute_teams_into_poules: the raised exception (or "none") and the poules
distribute_teams_into_poules(num_teams, teams_per_poule) ==
  IF too_few_teams(num_teams) THEN [err |-> "ValueError", poules |-> <<>>]
  ELSE IF num_teams = 5 THEN [err |-> "none", poules |-> << <<0, 1, 2, 3, 4>> >>]
  ELSE LET c == adjust_counts(num_teams, teams_per_poule)
           f == full_poules(<<>>, 0, c.num_full_poules, teams_per_poule)
       IN  [err |-> "none", poules |-> remainder_loop(f.poules, f.team_idx, num_teams)]

\* ------------------------------------------------------------ utils/poules
PouleLetters == <<"A", "B", "C", "D", "E", "F", "G", "H", "I", "J", "K", "L", "M",
                  "N", "O", "P", "Q", "R", "S", "T", "U", "V", "W", "X", "Y", "Z">>

\* generate_poule_names: chr(65 + i) for i in range(num_poules)
generate_poule_names(num_poules) == [i \in 1..num_poules |-> PouleLetters[i]]

\* get_poule_id: id of the row with this name, None when there is none
get_poule_id(table, name) ==
  IF \E i \in 1..Len(table) : table[i] = name
    THEN CHOOSE i \in 1..Len(table) : table[i] = name
    ELSE None

\* get_or_create_poule: the table after the call and the id it returns
get_or_create_poule(table, name) ==
  LET poule_id == get_poule_id(table, name)
  IN  IF poule_id # None /\ poule_id # 0
        THEN [table |-> table, poule_id |-> poule_id]
        ELSE [table |-> Append(table, name), poule_id |-> Len(table) + 1]

\* ------------------------------------------------------------ models/match
\* Match(...) as constructed by the generators: no scores, no sets
Match(phase, poule_id, team1, team2) ==
  [id |-> None, phase |-> phase, poule_id |-> poule_id, team1 |-> team1, team2 |-> team2,
   team1_score |-> None, team2_score |-> None, sets |-> <<>>]

\* Match._calculate_set_wins
RECURSIVE _calculate_set_wins(_)
_calculate_set_wins(sets) ==
  IF sets = <<>> THEN <<0, 0>>
  ELSE LET r == _calculate_set_wins(Tail(sets))
           s == Head(sets)
       IN  IF s[1] > s[2] THEN <<r[1] + 1, r[2]>>
           ELSE IF s[2] > s[1] THEN <<r[1], r[2] + 1>>
           ELSE r

\* Match.is_played
is_played(m) ==
  IF m.sets # <<>> THEN Len(m.sets) > 0
  ELSE m.team1_score # None /\ m.team2_score # None

\* Match.winner with a tie awarded to team1
winner_ties_to_team1(m) ==
  IF ~is_played(m) THEN None
  ELSE IF m.sets # <<>>
    THEN LET w == _calculate_set_wins(m.sets)
         IN  IF w[1] >= w[2] THEN m.team1 ELSE m.team2
    ELSE IF m.team1_score >= m.team2_score THEN m.team1 ELSE m.team2

\* Match.winner: the winning team id, None when not played or tied
winner(m) ==
  IF ~is_played(m) THEN None
  ELSE IF m.sets # <<>>
    THEN LET w == _calculate_set_wins(m.sets)
         IN  IF w[1] > w[2] THEN m.team1 ELSE IF w[2] > w[1] THEN m.team2 ELSE None
    ELSE IF m.team1_score > m.team2_score THEN m.team1
         ELSE IF m.team2_score > m.team1_score THEN m.team2
         ELSE None

\* Match.loser
loser(m) ==
  IF ~is_played(m) THEN None
  ELSE LET w == winner(m)
       IN  IF w = None THEN None
           ELSE IF w = m.team1 THEN m.team2
           ELSE IF w = m.team2 THEN m.team1
           ELSE None

\* the characters of the decimal digits
Digits == <<"0", "1", "2", "3", "4", "5", "6", "7", "8", "9">>

\* str(n) for n >= 0, as a list of characters
RECURSIVE str(_)
str(n) == IF n < 10 THEN <<Digits[n + 1]>> ELSE str(n \div 10) \o <<Digits[(n % 10) + 1]>>

\* ", ".join(parts) for a list of texts
RECURSIVE join(_)
join(parts) ==
  IF parts = <<>> THEN <<>>
  ELSE IF Len(parts) = 1 THEN parts[1]
  ELSE parts[1] \o <<",", " ">> \o join(Tail(parts))

\* json.dumps that writes the first set only
json_dumps_first_set(sets) ==
  <<"[", "[">> \o str(sets[1][1]) \o <<",", " ">> \o str(sets[1][2]) \o <<"]", "]">>

\* json.dumps(self.sets) for a list of (score1, score2) tuples: "[[11, 9], [9, 11]]"
json_dumps(sets) ==
  <<"[">> \o join([k \in 1..Len(sets) |-> <<"[">> \o join(<<str(sets[k][1]), str(sets[k][2])>>) \o <<"]">>])
        \o <<"]">>

\* json.loads of a list of lists of numbers, read character by character: depth is the
\* bracket depth, num the number being read (None between numbers), cur the inner
\* list being read, out the inner lists read so far
RECURSIVE json_loads_from(_, _, _, _, _)
json_loads_from(text, depth, num, cur, out) ==
  IF text = <<>> THEN out
  ELSE LET c == Head(text)
           cur1 == IF num # None THEN Append(cur, num) ELSE cur
       IN  IF c = "[" THEN json_loads_from(Tail(text), depth + 1, None, <<>>, out)
           ELSE IF c = "]"
             THEN json_loads_from(Tail(text), depth - 1, None, <<>>,
                                  IF depth = 2 THEN Append(out, cur1) ELSE out)
           ELSE IF c = "," THEN json_loads_from(Tail(text), depth, None, cur1, out)
           ELSE IF c = " " THEN json_loads_from(Tail(text), depth, num, cur, out)
           ELSE LET d == (CHOOSE k \in 1..Len(Digits) : Digits[k] = c) - 1
                IN  json_loads_from(Tail(text), depth, (IF num = None THEN 0 ELSE 10 * num) + d,
                                    cur, out)

json_loads(text) == json_loads_from(text, 0, None, <<>>, <<>>)

\* the sets_json column Match.save writes (line 117); the empty text stands for NULL
sets_json(m) == IF m.sets # <<>> THEN json_dumps(m.sets) ELSE <<>>

\* the sets the loaders build from the sets_json column (lines 164-165, 205-206)
sets_of_column(text) ==
  LET sets_data == IF text # <<>> THEN json_loads(text) ELSE <<>>
  IN  [k \in 1..Len(sets_data) |-> <<sets_data[k][1], sets_data[k][2]>>]

\* Match.save lines 112-115: a non-empty sets list overwrites both scores of the object
save_object(m) ==
  IF m.sets # <<>>
    THEN LET w == _calculate_set_wins(m.sets)
         IN  [m EXCEPT !.team1_score = w[1], !.team2_score = w[2]]
    ELSE m

\* Match.save: the row written, as the loaders read it back
saved_row(m) == [save_object(m) EXCEPT !.sets = sets_of_column(sets_json(m))]

\* Match.save of new matches: INSERT each, ids continue the table
RECURSIVE insert_all(_, _)
insert_all(table, new) ==
  IF new = <<>> THEN table
  ELSE insert_all(Append(table, [saved_row(Head(new)) EXCEPT !.id = Len(table) + 1]), Tail(new))

\* Match.get_by_tournament(tournament_id, phase): rows of one phase, here in id
\* order (the query orders by played_at DESC, id; timestamps are not part of the state)
RECURSIVE get_by_tournament(_, _)
get_by_tournament(table, phase) ==
  IF table = <<>> THEN <<>>
  ELSE IF Head(table).phase = phase
    THEN <<Head(table)>> \o get_by_tournament(Tail(table), phase)
    ELSE get_by_tournament(Tail(table), phase)

\* ------------------------------------------------- tournament_types: generators
DefaultTeamsPerPoule == 4    \* generate_matches(self, teams_per_poule: int = 4)

\* for j in range(i, n): the inner loop started one place too early
inner_range_from_i(i, n) == range(i, n)

\* for j in range(i + 1, n)
inner_range(i, n) == range(i + 1, n)

\* for i in range(n): for j in range(i + 1, n): the index pairs (i, j), in loop order
RECURSIVE index_pairs(_, _)
index_pairs(i, n) ==
  IF i >= n THEN <<>>
  ELSE LET js == inner_range(i, n)
       IN  [k \in 1..Len(js) |-> <<i, js[k]>>] \o index_pairs(i + 1, n)

\* RoundRobinTournament.generate_matches lines 30-44: the Match objects built
round_robin_matches(teams_) ==
  LET ps == index_pairs(0, Len(teams_))
  IN  [k \in 1..Len(ps) |-> Match("poule", None, teams_[ps[k][1] + 1], teams_[ps[k][2] + 1])]

\* tagging every match with the first poule's id instead of its own
poule_matches_untagged(teams_, poule_teams, poule_id) ==
  LET ps == index_pairs(0, Len(poule_teams))
  IN  [k \in 1..Len(ps) |->
         Match("poule", 1, teams_[poule_teams[ps[k][1] + 1] + 1],
                           teams_[poule_teams[ps[k][2] + 1] + 1])]

\* DefaultTournament.generate_matches lines 53-66: the Match objects of one poule
poule_matches(teams_, poule_teams, poule_id) ==
  LET ps == index_pairs(0, Len(poule_teams))
  IN  [k \in 1..Len(ps) |->
         Match("poule", poule_id, teams_[poule_teams[ps[k][1] + 1] + 1],
                                  teams_[poule_teams[ps[k][2] + 1] + 1])]

\* DefaultTournament.generate_matches lines 48-66: the loop over the poules
RECURSIVE generate_poules(_, _, _, _, _)
generate_poules(st, teams_, dist, names, poule_idx) ==
  IF poule_idx > Len(dist) THEN st
  ELSE LET g == get_or_create_poule(st.poules, names[poule_idx])
           new == poule_matches(teams_, dist[poule_idx], g.poule_id)
           tab == insert_all(st.matches, new)
       IN  generate_poules([poules |-> g.table, matches |-> tab,
                            returned |-> st.returned \o SubSeq(tab, Len(st.matches) + 1, Len(tab))],
                           teams_, dist, names, poule_idx + 1)

\* DefaultTournament.generate_matches: outcome of a call on the given tables
default_generate_matches(teams_, ptable, mtable, teams_per_poule) ==
  IF Len(teams_) < 3
    THEN [err |-> "ValueError", poules |-> ptable, matches |-> mtable,
          returned |-> <<>>, poule_distribution |-> <<>>]
    ELSE LET d == distribute_teams_into_poules(Len(teams_), teams_per_poule)
             st == generate_poules([poules |-> ptable, matches |-> mtable, returned |-> <<>>],
                                   teams_, d.poules, generate_poule_names(Len(d.poules)), 1)
         IN  IF d.err # "none"
               THEN [err |-> d.err, poules |-> ptable, matches |-> mtable,
                     returned |-> <<>>, poule_distribution |-> <<>>]
               ELSE [err |-> "none", poules |-> st.poules, matches |-> st.matches,
                     returned |-> st.returned, poule_distribution |-> d.poules]

\* RoundRobinTournament.generate_matches: outcome of a call on the given tables
round_robin_generate_matches(teams_, ptable, mtable) ==
  IF Len(teams_) < 2
    THEN [err |-> "none", poules |-> ptable, matches |-> mtable,
          returned |-> <<>>, poule_distribution |-> <<>>]
    ELSE LET tab == insert_all(mtable, round_robin_matches(teams_))
         IN  [err |-> "none", poules |-> ptable, matches |-> tab,
              returned |-> SubSeq(tab, Len(mtable) + 1, Len(tab)), poule_distribution |-> <<>>]

\* Tournament.generate_matches, dispatched on the subclass get_by_id instantiates
generate_matches(ttype, teams_, ptable, mtable) ==
  IF ttype = "round_robin"
    THEN round_robin_generate_matches(teams_, ptable, mtable)
    ELSE default_generate_matches(teams_, ptable, mtable, DefaultTeamsPerPoule)

\* ------------------------------------------------- utils/bracket_generator
\* TeamStats(team): all counters start at 0
TeamStats(team) ==
  [team |-> team, wins |-> 0, losses |-> 0, sets_won |-> 0, sets_lost |-> 0,
   points_for |-> 0, points_against |-> 0]

sets_balance(st) == st.sets_won - st.sets_lost

points_balance(st) == st.points_for - st.points_against

\* TeamStats.__lt__ comparing wins only
stats_lt_wins_only(a, b) == a.wins < b.wins

\* TeamStats.__lt__
stats_lt(a, b) ==
  IF a.wins # b.wins THEN a.wins < b.wins
  ELSE IF sets_balance(a) # sets_balance(b) THEN sets_balance(a) < sets_balance(b)
  ELSE points_balance(a) < points_balance(b)

\* a finite set of integers as a list in ascending order (iteration of a set of team ids,
\* sorted() of a list of keys)
RECURSIVE ascending(_)
ascending(S) ==
  IF S = {} THEN <<>>
  ELSE LET x == CHOOSE a \in S : \A b \in S : a <= b IN <<x>> \o ascending(S \ {x})

\* "score or 0"
or0(x) == IF x = None THEN 0 ELSE x

\* lines 65-73 left out: only the team1 side of a match is counted
add_match_team1_only(st, m) ==
  IF ~is_played(m) \/ m.team1 # st.team THEN st
  ELSE [st EXCEPT !.sets_won = @ + or0(m.team1_score),
                  !.sets_lost = @ + or0(m.team2_score),
                  !.wins = IF winner(m) = m.team1 THEN @ + 1 ELSE @,
                  !.losses = IF winner(m) # m.team1 /\ loser(m) = m.team1 THEN @ + 1 ELSE @]

\* calculate_poule_standings lines 51-73: one match added to the stats of one team
add_match(st, m) ==
  IF ~is_played(m) THEN st
  ELSE LET s1 == IF m.team1 = st.team
                   THEN [st EXCEPT !.sets_won = @ + or0(m.team1_score),
                                   !.sets_lost = @ + or0(m.team2_score),
                                   !.wins = IF winner(m) = m.team1 THEN @ + 1 ELSE @,
                                   !.losses = IF winner(m) # m.team1 /\ loser(m) = m.team1
                                                THEN @ + 1 ELSE @]
                   ELSE st
       IN  IF m.team2 = s1.team
             THEN [s1 EXCEPT !.sets_won = @ + or0(m.team2_score),
                             !.sets_lost = @ + or0(m.team1_score),
                             !.wins = IF winner(m) = m.team2 THEN @ + 1 ELSE @,
                             !.losses = IF winner(m) # m.team2 /\ loser(m) = m.team2
                                          THEN @ + 1 ELSE @]
             ELSE s1

RECURSIVE team_stats(_, _)
team_stats(st, ms) ==
  IF ms = <<>> THEN st ELSE team_stats(add_match(st, Head(ms)), Tail(ms))

\* list.sort(key=lambda x: x[k], reverse=True): stable, descending by TeamStats.__lt__;
\* key is the 1-based position of the TeamStats in each tuple
insert_desc(sorted, x, key) ==
  LET ahead == {i \in 1..Len(sorted) : stats_lt(sorted[i][key], x[key])}
      pos == IF ahead = {} THEN Len(sorted) + 1
             ELSE CHOOSE i \in ahead : \A j \in ahead : i <= j
  IN  SubSeq(sorted, 1, pos - 1) \o <<x>> \o SubSeq(sorted, pos, Len(sorted))

RECURSIVE sort_desc(_, _, _)
sort_desc(acc, rest, key) ==
  IF rest = <<>> THEN acc ELSE sort_desc(insert_desc(acc, Head(rest), key), Tail(rest), key)

\* calculate_poule_standings(teams, matches): list of (team, TeamStats), best first
calculate_poule_standings(teams_, ms) ==
  sort_desc(<<>>, [i \in 1..Len(teams_) |-> <<teams_[i], team_stats(TeamStats(teams_[i]), ms)>>], 2)

RECURSIVE select_poule(_, _)
select_poule(ms, poule_id) ==
  IF ms = <<>> THEN <<>>
  ELSE IF Head(ms).poule_id = poule_id
    THEN <<Head(ms)>> \o select_poule(Tail(ms), poule_id)
    ELSE select_poule(Tail(ms), poule_id)

\* standings[:top_n] replaced by the whole list
take_all(seq, n) == seq

\* standings[:top_n]
take(seq, n) == SubSeq(seq, 1, IF Len(seq) < n THEN Len(seq) ELSE n)

\* get_qualified_teams_from_poules lines 92-112: the loop over the poules, which
\* get_poules_by_tournament returns ordered by name (the order they were created in);
\* the set team_ids is iterated in ascending id order
RECURSIVE qualified_loop(_, _, _, _, _)
qualified_loop(acc, ptable, mtable, top_n, poule_id) ==
  IF poule_id > Len(ptable) THEN acc
  ELSE LET pm == select_poule(get_by_tournament(mtable, "poule"), poule_id)
           team_ids == {pm[i].team1 : i \in 1..Len(pm)} \cup {pm[i].team2 : i \in 1..Len(pm)}
           standings == calculate_poule_standings(ascending(team_ids), pm)
           top == take(standings, top_n)
       IN  qualified_loop(acc \o [i \in 1..Len(top) |-> <<top[i][1], ptable[poule_id], top[i][2]>>],
                          ptable, mtable, top_n, poule_id + 1)

\* get_qualified_teams_from_poules: list of (team, poule_name, TeamStats), best first
get_qualified_teams_from_poules(ptable, mtable, top_n) ==
  sort_desc(<<>>, qualified_loop(<<>>, ptable, mtable, top_n, 1), 3)

\* generate_knockout_bracket line 141: "for idx, (team, poule_name) in enumerate(...)"
\* unpacks every element into two names, which raises ValueError for any other length
unpack_poule_groups(qualified_teams) ==
  IF \E i \in 1..Len(qualified_teams) : Len(qualified_teams[i]) # 2
    THEN "ValueError" ELSE "none"

KnockoutMatch(team1, team2) == Match("knockout", None, team1, team2)

\* generate_knockout_bracket lines 247-256: first vs last, second vs second-last, ...
pair_ends(qualified_teams) ==
  LET n == Len(qualified_teams)
  IN  [i \in 1..(n \div 2) |-> KnockoutMatch(qualified_teams[i][1], qualified_teams[n + 1 - i][1])]

\* poule_teams[poule_name] (lines 149-151): the teams of one poule, in list order
RECURSIVE poule_teams_of(_, _)
poule_teams_of(qualified_teams, name) ==
  IF qualified_teams = <<>> THEN <<>>
  ELSE IF Head(qualified_teams)[2] = name
    THEN <<Head(qualified_teams)[1]>> \o poule_teams_of(Tail(qualified_teams), name)
    ELSE poule_teams_of(Tail(qualified_teams), name)

\* sorted(poule_teams.keys()): the poule names present, in alphabetical order
sorted_poule_names(qualified_teams) ==
  LET present == {i \in 1..Len(PouleLetters) :
                    \E k \in 1..Len(qualified_teams) : qualified_teams[k][2] = PouleLetters[i]}
      idx == ascending(present)
  IN  [k \in 1..Len(idx) |-> PouleLetters[idx[k]]]

\* "x[1] if len(x) > 1 else x[0]"
second_or_first(x) == IF Len(x) > 1 THEN x[2] ELSE x[1]

\* generate_knockout_bracket lines 154-187: 4 qualifiers
bracket_of_4(qualified_teams) ==
  LET names == sorted_poule_names(qualified_teams)
  IN  IF Len(names) = 2
        THEN LET a_teams == poule_teams_of(qualified_teams, names[1])
                 b_teams == poule_teams_of(qualified_teams, names[2])
             IN  (IF Len(a_teams) >= 1 /\ Len(b_teams) >= 2
                    THEN <<KnockoutMatch(a_teams[1], b_teams[2])>> ELSE <<>>)
                 \o (IF Len(a_teams) >= 2 /\ Len(b_teams) >= 1
                       THEN <<KnockoutMatch(b_teams[1], a_teams[2])>> ELSE <<>>)
        ELSE <<KnockoutMatch(qualified_teams[1][1], qualified_teams[4][1]),
               KnockoutMatch(qualified_teams[2][1], qualified_teams[3][1])>>

\* generate_knockout_bracket lines 189-204: 6 qualifiers, the two best get a bye
bracket_of_6(qualified_teams) ==
  <<KnockoutMatch(qualified_teams[3][1], qualified_teams[6][1]),
    KnockoutMatch(qualified_teams[4][1], qualified_teams[5][1])>>

\* generate_knockout_bracket lines 206-245: 8 qualifiers
bracket_of_8(qualified_teams) ==
  LET names == sorted_poule_names(qualified_teams)
  IN  IF Len(names) = 4
        THEN LET t == [k \in 1..4 |-> poule_teams_of(qualified_teams, names[k])]
             IN  <<KnockoutMatch(t[1][1], second_or_first(t[4])),
                   KnockoutMatch(t[4][1], second_or_first(t[1])),
                   KnockoutMatch(t[2][1], second_or_first(t[3])),
                   KnockoutMatch(t[3][1], second_or_first(t[2]))>>
        ELSE [i \in 1..4 |-> KnockoutMatch(qualified_teams[i][1], qualified_teams[9 - i][1])]

\* generate_knockout_bracket: the raised exception (or "none") and the unsaved matches
generate_knockout_bracket(qualified_teams) ==
  IF Len(qualified_teams) < 2 THEN [err |-> "none", matches |-> <<>>]
  ELSE IF unpack_poule_groups(qualified_teams) # "none"
    THEN [err |-> unpack_poule_groups(qualified_teams), matches |-> <<>>]
  ELSE IF Len(qualified_teams) = 4 THEN [err |-> "none", matches |-> bracket_of_4(qualified_teams)]
  ELSE IF Len(qualified_teams) = 6 THEN [err |-> "none", matches |-> bracket_of_6(qualified_teams)]
  ELSE IF Len(qualified_teams) = 8 THEN [err |-> "none", matches |-> bracket_of_8(qualified_teams)]
  ELSE [err |-> "none", matches |-> pair_ends(qualified_teams)]

\* ------------------------------------------------ tournament_types/round_robin
\* RoundRobinTournament.get_standings lines 55-62: the initial stats of one team
get_standings_init(team) ==
  [team |-> team, wins |-> 0, losses |-> 0, draws |-> 0, points_for |-> 0, points_against |-> 0]

\* the outcome counters of one side of a played match (lines 71-76, 81-86)
get_standings_outcome(st, m, side) ==
  IF winner(m) = side THEN [st EXCEPT !.wins = @ + 1]
  ELSE IF loser(m) = side THEN [st EXCEPT !.losses = @ + 1]
  ELSE [st EXCEPT !.draws = @ + 1]

\* RoundRobinTournament.get_standings lines 65-87: one match added to the stats of one team
get_standings_add(st, m) ==
  IF ~is_played(m) THEN st
  ELSE LET s1 == IF m.team1 = st.team
                   THEN get_standings_outcome(
                          [st EXCEPT !.points_for = @ + or0(m.team1_score),
                                     !.points_against = @ + or0(m.team2_score)], m, m.team1)
                   ELSE st
       IN  IF m.team2 = s1.team
             THEN get_standings_outcome(
                    [s1 EXCEPT !.points_for = @ + or0(m.team2_score),
                               !.points_against = @ + or0(m.team1_score)], m, m.team2)
             ELSE s1

RECURSIVE get_standings_stats(_, _)
get_standings_stats(st, ms) ==
  IF ms = <<>> THEN st ELSE get_standings_stats(get_standings_add(st, Head(ms)), Tail(ms))

\* lines 91-100: the DataFrame row of one team
get_standings_row(stat) ==
  [Team |-> stat.team, Gewonnen |-> stat.wins, Verloren |-> stat.losses, Gelijk |-> stat.draws,
   Punten_Voor |-> stat.points_for, Punten_Tegen |-> stat.points_against,
   Saldo |-> stat.points_for - stat.points_against]

\* row a is placed after row b by sort_values(['Gewonnen', 'Saldo'], ascending=[False, False])
row_lt_ascending(a, b) ==
  IF a.Gewonnen # b.Gewonnen THEN b.Gewonnen < a.Gewonnen ELSE b.Saldo < a.Saldo

row_lt(a, b) ==
  IF a.Gewonnen # b.Gewonnen THEN a.Gewonnen < b.Gewonnen ELSE a.Saldo < b.Saldo

\* df.sort_values (lines 103-104): descending, rows with equal keys keep their order
RECURSIVE sort_values(_, _)
sort_values(acc, rest) ==
  IF rest = <<>> THEN acc
  ELSE LET x == Head(rest)
           ahead == {i \in 1..Len(acc) : row_lt(acc[i], x)}
           pos == IF ahead = {} THEN Len(acc) + 1
                  ELSE CHOOSE i \in ahead : \A j \in ahead : i <= j
       IN  sort_values(SubSeq(acc, 1, pos - 1) \o <<x>> \o SubSeq(acc, pos, Len(acc)), Tail(rest))

\* RoundRobinTournament.get_standings: the rows of the DataFrame, best first
get_standings(teams_, mtable) ==
  LET ms == get_by_tournament(mtable, "poule")
  IN  sort_values(<<>>, [i \in 1..Len(teams_) |->
                          get_standings_row(get_standings_stats(get_standings_init(teams_[i]), ms))])

\* generate_knockout_round pairing neighbours: first vs second, third vs fourth, ...
generate_knockout_round_adjacent(previous_round_winners) ==
  LET num_teams == Len(previous_round_winners)
  IN  IF num_teams < 2 THEN <<>>
      ELSE [i \in 1..(num_teams \div 2) |->
              KnockoutMatch(previous_round_winners[2 * i - 1], previous_round_winners[2 * i])]

\* generate_knockout_round: the unsaved matches of the next round
generate_knockout_round(previous_round_winners) ==
  LET num_teams == Len(previous_round_winners)
  IN  IF num_teams < 2 THEN <<>>
      ELSE [i \in 1..(num_teams \div 2) |->
              KnockoutMatch(previous_round_winners[i], previous_round_winners[num_teams + 1 - i])]

\* ------------------------------------------ tournament_types/default_tournament
\* if not matches: return False -- dropped, so that an empty list counts as all played
all_poule_matches_played_vacuous(mtable) ==
  LET ms == get_by_tournament(mtable, "poule")
  IN  \A i \in 1..Len(ms) : is_played(ms[i])

\* DefaultTournament.all_poule_matches_played
all_poule_matches_played(mtable) ==
  LET ms == get_by_tournament(mtable, "poule")
  IN  IF ms = <<>> THEN FALSE ELSE \A i \in 1..Len(ms) : is_played(ms[i])

\* [m for m in self.get_matches("poule") if m.is_played]
RECURSIVE played_matches(_)
played_matches(ms) ==
  IF ms = <<>> THEN <<>>
  ELSE IF is_played(Head(ms)) THEN <<Head(ms)>> \o played_matches(Tail(ms))
  ELSE played_matches(Tail(ms))

\* _get_poule_standings lines 95-109: the keys of poule_stats[poule_id] in insertion
\* order, the teams of the poule's played matches in order of first appearance
RECURSIVE poule_stats_keys(_, _)
poule_stats_keys(keys, ms) ==
  IF ms = <<>> THEN keys
  ELSE LET m == Head(ms)
           k1 == IF \E i \in 1..Len(keys) : keys[i] = m.team1 THEN keys ELSE Append(keys, m.team1)
           k2 == IF \E i \in 1..Len(k1) : k1[i] = m.team2 THEN k1 ELSE Append(k1, m.team2)
       IN  poule_stats_keys(k2, Tail(ms))

\* _get_poule_standings lines 118-132: one played match added to the stats of one team
poule_stats_add(st, m) ==
  LET s1 == IF m.team1 = st.team
              THEN [st EXCEPT !.points_for = @ + or0(m.team1_score),
                              !.points_against = @ + or0(m.team2_score),
                              !.wins = IF winner(m) = m.team1 THEN @ + 1 ELSE @,
                              !.losses = IF winner(m) # m.team1 /\ loser(m) = m.team1
                                           THEN @ + 1 ELSE @]
              ELSE st
  IN  IF m.team2 = s1.team
        THEN [s1 EXCEPT !.points_for = @ + or0(m.team2_score),
                        !.points_against = @ + or0(m.team1_score),
                        !.wins = IF winner(m) = m.team2 THEN @ + 1 ELSE @,
                        !.losses = IF winner(m) # m.team2 /\ loser(m) = m.team2
                                     THEN @ + 1 ELSE @]
        ELSE s1

RECURSIVE poule_stats_of(_, _)
poule_stats_of(st, ms) ==
  IF ms = <<>> THEN st ELSE poule_stats_of(poule_stats_add(st, Head(ms)), Tail(ms))

\* lines 141-149: the row of one team
poule_standings_row(poule_name, stat) ==
  [Poule |-> poule_name, Team |-> stat.team, Gewonnen |-> stat.wins, Verloren |-> stat.losses,
   Punten_Voor |-> stat.points_for, Punten_Tegen |-> stat.points_against,
   Saldo |-> stat.points_for - stat.points_against]

\* lines 134-153: the sorted rows of the poules from poule_id on, poule after poule;
\* standings_data.sort(key=(Gewonnen, Saldo), reverse=True) keeps equal rows in order
RECURSIVE all_standings(_, _, _)
all_standings(ptable, played, poule_id) ==
  IF poule_id > Len(ptable) THEN <<>>
  ELSE LET ms == select_poule(played, poule_id)
           keys == poule_stats_keys(<<>>, ms)
           standings_data ==
             [k \in 1..Len(keys) |->
                poule_standings_row(ptable[poule_id],
                  poule_stats_of([team |-> keys[k], wins |-> 0, losses |-> 0,
                                  points_for |-> 0, points_against |-> 0], ms))]
       IN  sort_values(<<>>, standings_data) \o all_standings(ptable, played, poule_id + 1)

\* DefaultTournament._get_poule_standings: the rows of the DataFrame
_get_poule_standings(ptable, mtable) ==
  all_standings(ptable, played_matches(get_by_tournament(mtable, "poule")), 1)

\* DefaultTournament.generate_knockout_matches: outcome of a call on the given tables
generate_knockout_matches(ptable, mtable) ==
  IF ~all_poule_matches_played(mtable)
    THEN [err |-> "ValueError", matches |-> mtable, returned |-> <<>>, qualified |-> <<>>]
    ELSE LET q == get_qualified_teams_from_poules(ptable, mtable, 2)
             b == generate_knockout_bracket(q)
             tab == insert_all(mtable, b.matches)
         IN  IF b.err # "none"
               THEN [err |-> b.err, matches |-> mtable, returned |-> <<>>, qualified |-> q]
               ELSE [err |-> "none", matches |-> tab,
                     returned |-> SubSeq(tab, Len(mtable) + 1, Len(tab)), qualified |-> q]

\* ---------------------------------------------------------------- state machine
NoCall == [op |-> "none", num_teams |-> None, teams_per_poule |-> None]

\* a browser session that is not inside the generate button's handler
Idle == [at |-> "idle", teams |-> <<>>, dist |-> <<>>, poule_idx |-> 0, poule_id |-> None,
         new |-> <<>>]

OpCall(op) == [op |-> op, num_teams |-> None, teams_per_poule |-> None]

\* a saved tournament with no teams (app.py lines 77-95)
Init ==
  /\ tournament_type \in TournamentTypes
  /\ sport_type \in SportTypes
  /\ teams = <<>>
  /\ poules = <<>>
  /\ matches = <<>>
  /\ generations = 0
  /\ call = NoCall
  /\ err = "none"
  /\ returned = <<>>
  /\ dist_result = <<>>
  /\ poule_distribution = <<>>
  /\ qualified = <<>>
  /\ roster = <<>>
  /\ standings_result = <<>>
  /\ reloaded = <<>>
  /\ winners = <<>>
  /\ pc = [s \in Sessions |-> Idle]

\* Team.save of a new team (app.py lines 215, 255): the next id of the teams table
AddTeam(limit) ==
  /\ Len(teams) < limit
  /\ teams' = Append(teams, Len(teams) + 1)
  /\ call' = OpCall("save")
  /\ err' = "none"
  /\ returned' = <<>>
  /\ dist_result' = <<>>
  /\ poule_distribution' = <<>>
  /\ qualified' = <<>>
  /\ roster' = <<>>
  /\ standings_result' = <<>>
  /\ reloaded' = <<>>
  /\ winners' = <<>>
  /\ pc' = pc
  /\ UNCHANGED <<tournament_type, sport_type, poules, matches, generations>>

\* a direct call of distribute_teams_into_poules(num_teams, teams_per_poule)
Distribute(limit, sizes) ==
  \E n \in 0..limit, tpp \in sizes :
    LET r == distribute_teams_into_poules(n, tpp) IN
    /\ call' = [op |-> "distribute_teams_into_poules", num_teams |-> n, teams_per_poule |-> tpp]
    /\ err' = r.err
    /\ dist_result' = r.poules
    /\ returned' = <<>>
    /\ poule_distribution' = <<>>
    /\ qualified' = <<>>
    /\ roster' = <<>>
    /\ standings_result' = <<>>
    /\ reloaded' = <<>>
    /\ winners' = <<>>
    /\ pc' = pc
    /\ UNCHANGED <<tournament_type, sport_type, teams, poules, matches, generations>>

\* tournament.generate_matches() on the tournament Tournament.get_by_id returned
GenerateMatches(limit) ==
  LET r == generate_matches(tournament_type, teams, poules, matches) IN
  /\ Len(r.matches) <= limit
  /\ r.returned # <<>> => generations < MaxGenerations
  /\ poules' = r.poules
  /\ matches' = r.matches
  /\ generations' = IF r.returned # <<>> THEN generations + 1 ELSE generations
  /\ call' = OpCall("generate_matches")
  /\ err' = r.err
  /\ returned' = r.returned
  /\ dist_result' = <<>>
  /\ poule_distribution' = r.poule_distribution
  /\ qualified' = <<>>
  /\ roster' = <<>>
  /\ standings_result' = <<>>
  /\ reloaded' = <<>>
  /\ winners' = <<>>
  /\ pc' = pc
  /\ UNCHANGED <<tournament_type, sport_type, teams>>

\* the row a score form writes when its button is pressed
WriteMatch(i, m) ==
  /\ matches' = [matches EXCEPT ![i] = saved_row(m)]
  /\ call' = OpCall("save")
  /\ err' = "none"
  /\ returned' = <<>>
  /\ dist_result' = <<>>
  /\ poule_distribution' = <<>>
  /\ qualified' = <<>>
  /\ roster' = <<>>
  /\ standings_result' = <<>>
  /\ reloaded' = <<>>
  /\ winners' = <<>>
  /\ pc' = pc
  /\ UNCHANGED <<tournament_type, sport_type, teams, poules, generations>>

\* the per-set form is shown (app.py lines 347-350, 431)
sets_form_shown(m) ==
  /\ sport_type = "Tafeltennis"
  /\ is_played(m) => m.sets # <<>>

\* "Opslaan" of the per-set form (app.py lines 391-393, 470-472)
SaveSets ==
  \E i \in 1..Len(matches), s \in SetsChoices :
    /\ sets_form_shown(matches[i])
    /\ WriteMatch(i, [matches[i] EXCEPT !.sets = s])

\* "Opslaan" of the aggregate-score form (app.py lines 410-413, 499-502)
SaveScore ==
  \E i \in 1..Len(matches), sc \in ScoreChoices :
    /\ ~sets_form_shown(matches[i])
    /\ WriteMatch(i, [matches[i] EXCEPT !.team1_score = sc[1], !.team2_score = sc[2]])

\* "Score Verwijderen" of a played match (app.py lines 476-480, 506-510)
ClearScore ==
  \E i \in 1..Len(matches) :
    /\ is_played(matches[i])
    /\ WriteMatch(i, [matches[i] EXCEPT !.sets = <<>>, !.team1_score = None,
                                        !.team2_score = None])

\* tournament.generate_knockout_matches() on a DefaultTournament
GenerateKnockoutMatches ==
  /\ tournament_type = "default_tournament"
  /\ LET r == generate_knockout_matches(poules, matches) IN
     /\ Len(r.matches) <= MaxMatches
     /\ matches' = r.matches
     /\ err' = r.err
     /\ returned' = r.returned
     /\ qualified' = r.qualified
  /\ call' = OpCall("generate_knockout_matches")
  /\ dist_result' = <<>>
  /\ poule_distribution' = <<>>
  /\ roster' = <<>>
  /\ standings_result' = <<>>
  /\ reloaded' = <<>>
  /\ winners' = <<>>
  /\ pc' = pc
  /\ UNCHANGED <<tournament_type, sport_type, teams, poules, generations>>

\* Match(phase=KNOCKOUT, team1, team2).save(): a first knockout match written to the
\* matches table through the model, on a poule-based tournament that has none yet
SaveKnockoutMatch ==
  /\ tournament_type = "default_tournament"
  /\ \A i \in 1..Len(matches) : matches[i].phase # "knockout"
  /\ \E i, j \in 1..Len(teams) :
       /\ i < j
       /\ matches' = insert_all(matches, <<KnockoutMatch(teams[i], teams[j])>>)
  /\ call' = OpCall("save")
  /\ err' = "none"
  /\ returned' = <<>>
  /\ dist_result' = <<>>
  /\ poule_distribution' = <<>>
  /\ qualified' = <<>>
  /\ roster' = <<>>
  /\ standings_result' = <<>>
  /\ reloaded' = <<>>
  /\ winners' = <<>>
  /\ pc' = pc
  /\ UNCHANGED <<tournament_type, sport_type, teams, poules, generations>>

\* the list get_qualified_teams_from_poules builds before its final sort (lines 92-112)
\* for Len(wins) poules: poule k contributes its first, team 2k-1 with wins[k][1] wins,
\* then its second, team 2k with wins[k][2] wins
qualified_of(wins) ==
  [k \in 1..(2 * Len(wins)) |->
     <<k, PouleLetters[(k + 1) \div 2],
       [TeamStats(k) EXCEPT !.wins = wins[(k + 1) \div 2][2 - (k % 2)]]>>]

\* a direct call of generate_knockout_bracket(tournament_id, qualified_teams) on a list
\* get_qualified_teams_from_poules returns: two qualifiers per poule, sorted best first
GenerateKnockoutBracket ==
  /\ tournament_type = "default_tournament"
  /\ \E n \in 1..MaxSeedPoules :
       \E wins \in [1..n -> {w \in (0..MaxSeedWins) \X (0..MaxSeedWins) : w[1] >= w[2]}] :
         LET q == sort_desc(<<>>, qualified_of(wins), 3)
             b == generate_knockout_bracket(q)
         IN  /\ qualified' = q
             /\ err' = b.err
             /\ returned' = b.matches
  /\ call' = OpCall("generate_knockout_bracket")
  /\ dist_result' = <<>>
  /\ poule_distribution' = <<>>
  /\ roster' = <<>>
  /\ standings_result' = <<>>
  /\ reloaded' = <<>>
  /\ winners' = <<>>
  /\ pc' = pc
  /\ UNCHANGED <<tournament_type, sport_type, teams, poules, matches, generations>>

\* "Opslaan" of the per-set form with as many sets won by either side
SaveDrawnSets ==
  \E i \in 1..Len(matches), s \in DrawnSetsChoices :
    /\ sets_form_shown(matches[i])
    /\ WriteMatch(i, [matches[i] EXCEPT !.sets = s])

\* "Opslaan" of the aggregate-score form with two equal scores
SaveDrawnScore ==
  \E i \in 1..Len(matches), sc \in DrawnScoreChoices :
    /\ ~sets_form_shown(matches[i])
    /\ WriteMatch(i, [matches[i] EXCEPT !.team1_score = sc[1], !.team2_score = sc[2]])

\* list[:k] + list[k+1:] for k >= 0, the whole list for k < 0
without(seq, k) ==
  IF k < 0 THEN seq ELSE SubSeq(seq, 1, k) \o SubSeq(seq, k + 2, Len(seq))

\* a direct call of calculate_poule_standings(teams, matches) with the poule-phase
\* matches of the tournament and a roster that is the team list or lacks one team
CalculatePouleStandings ==
  /\ \E k \in (-1)..(Len(teams) - 1) :
       /\ roster' = without(teams, k)
       /\ standings_result' =
            calculate_poule_standings(without(teams, k), get_by_tournament(matches, "poule"))
  /\ call' = OpCall("calculate_poule_standings")
  /\ err' = "none"
  /\ returned' = <<>>
  /\ dist_result' = <<>>
  /\ poule_distribution' = <<>>
  /\ qualified' = <<>>
  /\ reloaded' = <<>>
  /\ winners' = <<>>
  /\ pc' = pc
  /\ UNCHANGED <<tournament_type, sport_type, teams, poules, matches, generations>>

\* tournament.get_standings() on a RoundRobinTournament
GetStandings ==
  /\ tournament_type = "round_robin"
  /\ roster' = teams
  /\ standings_result' = get_standings(teams, matches)
  /\ call' = OpCall("get_standings")
  /\ err' = "none"
  /\ returned' = <<>>
  /\ dist_result' = <<>>
  /\ poule_distribution' = <<>>
  /\ qualified' = <<>>
  /\ reloaded' = <<>>
  /\ winners' = <<>>
  /\ pc' = pc
  /\ UNCHANGED <<tournament_type, sport_type, teams, poules, matches, generations>>

\* the set lists of at most the given length over SetPairs
SetLists(n) == UNION {[1..k -> SetPairs] : k \in 0..n}

\* match.sets = ...; match.save(); Match.get_by_id(match.id) on the match of the first
\* two teams, inserted when the table is empty
SaveAndReload ==
  /\ Len(teams) >= 2
  /\ Len(matches) <= 1
  /\ \E s \in SetLists(MaxSets) :
       LET old == IF matches = <<>> THEN Match("poule", None, teams[1], teams[2]) ELSE matches[1]
           m == [old EXCEPT !.sets = s, !.id = 1]
       IN  /\ matches' = <<saved_row(m)>>
           /\ reloaded' = [saved |-> save_object(m), loaded |-> saved_row(m)]
  /\ call' = OpCall("get_by_id")
  /\ err' = "none"
  /\ returned' = <<>>
  /\ dist_result' = <<>>
  /\ poule_distribution' = <<>>
  /\ qualified' = <<>>
  /\ roster' = <<>>
  /\ standings_result' = <<>>
  /\ winners' = <<>>
  /\ UNCHANGED <<tournament_type, sport_type, teams, poules, generations, pc>>

\* a qualifier list of teams 1..Len(labels), best first (team k has Len(labels) - k
\* wins), team k tagged with labels[k]
labelled_qualifiers(labels) ==
  [k \in 1..Len(labels) |->
     <<k, labels[k], [TeamStats(k) EXCEPT !.wins = Len(labels) - k]>>]

\* a direct call of generate_knockout_bracket(tournament_id, qualified_teams) on a
\* sorted list whose poule labels are spread in any way over poules A and B
GenerateKnockoutBracketLabelled ==
  /\ tournament_type = "default_tournament"
  /\ \E n \in 0..(2 * MaxSeedPoules) :
       \E labels \in [1..n -> {PouleLetters[1], PouleLetters[2]}] :
         LET q == labelled_qualifiers(labels)
             b == generate_knockout_bracket(q)
         IN  /\ qualified' = q
             /\ err' = b.err
             /\ returned' = b.matches
  /\ call' = OpCall("generate_knockout_bracket")
  /\ dist_result' = <<>>
  /\ poule_distribution' = <<>>
  /\ roster' = <<>>
  /\ standings_result' = <<>>
  /\ reloaded' = <<>>
  /\ winners' = <<>>
  /\ UNCHANGED <<tournament_type, sport_type, teams, poules, matches, generations, pc>>

\* the lists of distinct teams out of 1..n, of every length
WinnerLists(n) ==
  UNION {{w \in [1..k -> 1..n] : \A i, j \in 1..k : i # j => w[i] # w[j]} : k \in 0..n}

\* a direct call of generate_knockout_round(tournament_id, previous_round_winners, name)
GenerateKnockoutRound ==
  /\ tournament_type = "default_tournament"
  /\ \E w \in WinnerLists(MaxWinners) :
       /\ winners' = w
       /\ returned' = generate_knockout_round(w)
  /\ call' = OpCall("generate_knockout_round")
  /\ err' = "none"
  /\ dist_result' = <<>>
  /\ poule_distribution' = <<>>
  /\ qualified' = <<>>
  /\ roster' = <<>>
  /\ standings_result' = <<>>
  /\ reloaded' = <<>>
  /\ UNCHANGED <<tournament_type, sport_type, teams, poules, matches, generations, pc>>

\* tournament.get_standings("poule") on a DefaultTournament
GetPouleStandings ==
  /\ tournament_type = "default_tournament"
  /\ roster' = teams
  /\ standings_result' = _get_poule_standings(poules, matches)
  /\ call' = OpCall("_get_poule_standings")
  /\ err' = "none"
  /\ returned' = <<>>
  /\ dist_result' = <<>>
  /\ poule_distribution' = <<>>
  /\ qualified' = <<>>
  /\ reloaded' = <<>>
  /\ winners' = <<>>
  /\ UNCHANGED <<tournament_type, sport_type, teams, poules, matches, generations, pc>>

\* what a step of a session leaves of the observation variables
SessionFrame(op, e) ==
  /\ call' = OpCall(op)
  /\ err' = e
  /\ returned' = <<>>
  /\ dist_result' = <<>>
  /\ poule_distribution' = <<>>
  /\ qualified' = <<>>
  /\ roster' = <<>>
  /\ standings_result' = <<>>
  /\ reloaded' = <<>>
  /\ winners' = <<>>
  /\ UNCHANGED <<tournament_type, sport_type, generations>>

\* app.py lines 265-268 in the script run of session s: the match list is read and the
\* button's handler is entered only if the list is empty
CheckMatches(s) ==
  /\ pc[s].at = "idle"
  /\ tournament_type = "default_tournament"
  /\ Len(teams) >= 3
  /\ pc' = [pc EXCEPT ![s].at = IF matches = <<>> THEN "clicked" ELSE "idle"]
  /\ SessionFrame("get_matches", "none")
  /\ UNCHANGED <<teams, poules, matches>>

\* generate_matches lines 34-45 in session s: the teams are read and distributed
StartGenerate(s) ==
  /\ pc[s].at = "clicked"
  /\ LET d == distribute_teams_into_poules(Len(teams), DefaultTeamsPerPoule)
     IN  pc' = [pc EXCEPT ![s] = [at |-> "get_poule_id", teams |-> teams, dist |-> d.poules,
                                  poule_idx |-> 1, poule_id |-> None, new |-> <<>>]]
  /\ SessionFrame("generate_matches", "none")
  /\ UNCHANGED <<teams, poules, matches>>

\* get_or_create_poule lines 38-40 in session s: the SELECT of get_poule_id
SessionGetPouleId(s) ==
  /\ pc[s].at = "get_poule_id"
  /\ LET name == generate_poule_names(Len(pc[s].dist))[pc[s].poule_idx]
         poule_id == get_poule_id(poules, name)
     IN  pc' = IF poule_id # None /\ poule_id # 0
                 THEN [pc EXCEPT ![s].at = "save", ![s].poule_id = poule_id,
                                 ![s].new = poule_matches(pc[s].teams,
                                                          pc[s].dist[pc[s].poule_idx], poule_id)]
                 ELSE [pc EXCEPT ![s].at = "create_poule"]
  /\ SessionFrame("get_poule_id", "none")
  /\ UNCHANGED <<teams, poules, matches>>

\* get_or_create_poule line 41 in session s: the INSERT of create_poule, refused by
\* UNIQUE(tournament_id, phase, name) when the name has been inserted meanwhile; the
\* handler's except clause then ends the generation
SessionCreatePoule(s) ==
  /\ pc[s].at = "create_poule"
  /\ LET name == generate_poule_names(Len(pc[s].dist))[pc[s].poule_idx]
     IN  IF get_poule_id(poules, name) # None
           THEN /\ pc' = [pc EXCEPT ![s] = Idle]
                /\ poules' = poules
                /\ SessionFrame("create_poule", "IntegrityError")
           ELSE /\ pc' = [pc EXCEPT ![s].at = "save", ![s].poule_id = Len(poules) + 1,
                                    ![s].new = poule_matches(pc[s].teams,
                                                             pc[s].dist[pc[s].poule_idx],
                                                             Len(poules) + 1)]
                /\ poules' = Append(poules, name)
                /\ SessionFrame("create_poule", "none")
  /\ UNCHANGED <<teams, matches>>

\* generate_matches lines 53-66 in session s: one match.save(), then the next pair, the
\* next poule, or the return
SessionSaveMatch(s) ==
  /\ pc[s].at = "save"
  /\ pc[s].new # <<>>
  /\ matches' = insert_all(matches, <<Head(pc[s].new)>>)
  /\ pc' = IF Tail(pc[s].new) # <<>> THEN [pc EXCEPT ![s].new = Tail(@)]
           ELSE IF pc[s].poule_idx < Len(pc[s].dist)
             THEN [pc EXCEPT ![s].at = "get_poule_id", ![s].poule_idx = @ + 1,
                             ![s].poule_id = None, ![s].new = <<>>]
           ELSE [pc EXCEPT ![s] = Idle]
  /\ SessionFrame("save", "none")
  /\ UNCHANGED <<teams, poules>>

\* two browser sessions on one tournament
NextSessions ==
  \/ AddTeam(MaxSessionTeams)
  \/ \E s \in Sessions : CheckMatches(s)
  \/ \E s \in Sessions : StartGenerate(s)
  \/ \E s \in Sessions : SessionGetPouleId(s)
  \/ \E s \in Sessions : SessionCreatePoule(s)
  \/ \E s \in Sessions : SessionSaveMatch(s)

SpecSessions == Init /\ [][NextSessions]_vars

\* the lifecycle of one tournament: teams, generation, scores, knockout
Next ==
  \/ AddTeam(MaxTeams)
  \/ GenerateMatches(MaxMatches)
  \/ SaveSets
  \/ SaveScore
  \/ ClearScore
  \/ GenerateKnockoutMatches

Spec == Init /\ [][Next]_vars

\* the lifecycle on a matches table that may already hold a knockout match
NextKnockout ==
  \/ AddTeam(MaxKnockoutTeams)
  \/ GenerateMatches((MaxKnockoutTeams * (MaxKnockoutTeams - 1)) \div 2)
  \/ SaveSets
  \/ SaveScore
  \/ ClearScore
  \/ SaveKnockoutMatch
  \/ GenerateKnockoutMatches

SpecKnockout == Init /\ [][NextKnockout]_vars

\* score entry with drawn results, and the standings computed from the table
NextStandings ==
  \/ AddTeam(MaxStandingsTeams)
  \/ GenerateMatches((MaxStandingsTeams * (MaxStandingsTeams - 1)) \div 2)
  \/ SaveSets
  \/ SaveScore
  \/ SaveDrawnSets
  \/ SaveDrawnScore
  \/ ClearScore
  \/ CalculatePouleStandings
  \/ GetStandings
  \/ GetPouleStandings

SpecStandings == Init /\ [][NextStandings]_vars

\* a match saved with every set list and loaded again
NextRoundTrip ==
  \/ AddTeam(MaxSets)
  \/ SaveAndReload

SpecRoundTrip == Init /\ [][NextRoundTrip]_vars

\* the next knockout round, on every list of winners
NextRound == GenerateKnockoutRound

SpecRound == Init /\ [][NextRound]_vars

\* the bracket generator alone, on every qualifier list of up to MaxSeedPoules poules
NextSeed ==
  \/ GenerateKnockoutBracket
  \/ GenerateKnockoutBracketLabelled

SpecSeed == Init /\ [][NextSeed]_vars

\* the generators alone: the distributor on every input, generation on every roster
NextGen ==
  \/ Distribute(MaxGenTeams, {DefaultTeamsPerPoule})
  \/ AddTeam(MaxGenTeams)
  \/ GenerateMatches(MaxGenTeams * MaxGenTeams * MaxGenerations)

SpecGen == Init /\ [][NextGen]_vars

\* the distributor alone, on every team count and every preferred poule size
NextDist == Distribute(MaxDistTeams, MinPerPoule..MaxPerPoule)

SpecDist == Init /\ [][NextDist]_vars

\* ---------------------------------------------------------------- properties
\* the last operation was distribute_teams_into_poules with the default poule size
DistributedDefault ==
  /\ call.op = "distribute_teams_into_poules"
  /\ call.teams_per_poule = DefaultTeamsPerPoule

PouleSizes == {Len(dist_result[i]) : i \in 1..Len(dist_result)}

RECURSIVE Flatten(_)
Flatten(pp) == IF pp = <<>> THEN <<>> ELSE Head(pp) \o Flatten(Tail(pp))

\* C1: for every num_teams >= 3 (default poule size 4) all poules have size 3 or 4,
\* except that 5 teams give exactly one poule of 5.
C1_SizesThreeOrFour ==
  (DistributedDefault /\ call.num_teams >= 3) =>
    /\ err = "none"
    /\ IF call.num_teams = 5
         THEN Len(dist_result) = 1 /\ PouleSizes = {5}
         ELSE PouleSizes \subseteq {3, 4}

\* C2: the poules partition the indices 0..num_teams-1 and, concatenated in order,
\* give 0, 1, ..., num_teams-1.
C2_ContiguousPartition ==
  (call.op = "distribute_teams_into_poules" /\ call.num_teams >= 3) =>
    /\ err = "none"
    /\ Flatten(dist_result) = range(0, call.num_teams)
    /\ \A i \in 1..Len(dist_result) : dist_result[i] # <<>>

C2_Witness ==
  /\ DistributedDefault
  /\ call.num_teams = 10
  /\ Len(dist_result) = 3

\* C3: the results for 5, 6, 7, 8, 9 and 10 teams are exactly the documented ones,
\* poules of 4 before poules of 3.
C3_DocumentedExamples ==
  DistributedDefault =>
    /\ call.num_teams = 5 => dist_result = << <<0, 1, 2, 3, 4>> >>
    /\ call.num_teams = 6 => dist_result = << <<0, 1, 2>>, <<3, 4, 5>> >>
    /\ call.num_teams = 7 => dist_result = << <<0, 1, 2, 3>>, <<4, 5, 6>> >>
    /\ call.num_teams = 8 => dist_result = << <<0, 1, 2, 3>>, <<4, 5, 6, 7>> >>
    /\ call.num_teams = 9 => dist_result = << <<0, 1, 2>>, <<3, 4, 5>>, <<6, 7, 8>> >>
    /\ call.num_teams = 10 => dist_result = << <<0, 1, 2, 3>>, <<4, 5, 6>>, <<7, 8, 9>> >>

C3_Witness ==
  /\ DistributedDefault
  /\ call.num_teams = 6
  /\ Len(dist_result) = 2

\* the case of C4: at least 9 teams, one more than a multiple of 4
RemainderOneCase ==
  /\ DistributedDefault
  /\ call.num_teams >= 9
  /\ call.num_teams % 4 = 1

Generated(ttype) == call.op = "generate_matches" /\ tournament_type = ttype

Pairs(T) == {{a, b} : a, b \in T} \ {{a} : a \in T}

\* the matches of a list that pair two teams of T
Among(ms, T) == {i \in 1..Len(ms) : ms[i].team1 \in T /\ ms[i].team2 \in T}

\* the matches ms[i], i in I, are unplayed and hold every unordered pair of T exactly once
RoundRobinOver(ms, I, T) ==
  /\ 2 * Cardinality(I) = Cardinality(T) * (Cardinality(T) - 1)
  /\ \A i \in I : ms[i].team1 # ms[i].team2 /\ ~is_played(ms[i])
  /\ \A pr \in Pairs(T) : Cardinality({i \in I : {ms[i].team1, ms[i].team2} = pr}) = 1

\* the teams the distribution puts in poule p
Members(p) == {teams[poule_distribution[p][k] + 1] : k \in 1..Len(poule_distribution[p])}

\* C6: generation over N teams (all teams of a flat round-robin tournament, each poule
\* of a default tournament) creates N*(N-1)/2 unplayed matches, every unordered pair
\* of distinct teams exactly once, no team against itself.
C6_EveryPairOnce ==
  /\ (Generated("round_robin") /\ Len(teams) >= 2) =>
       RoundRobinOver(returned, 1..Len(returned), {teams[k] : k \in 1..Len(teams)})
  /\ (Generated("default_tournament") /\ err = "none") =>
       \A p \in 1..Len(poule_distribution) :
         RoundRobinOver(returned,
                        {i \in 1..Len(returned) : returned[i].poule_id = get_poule_id(poules, PouleLetters[p])},
                        Members(p))

C6_Witness ==
  /\ Generated("default_tournament")
  /\ Len(teams) = 7
  /\ Len(returned) = 9

\* C7: after DefaultTournament.generate_matches every created match is a poule-phase
\* match of two teams of one poule, tagged with that poule; none pairs teams of two
\* poules, and every team is in exactly one poule. On the first generation this is
\* true of the whole matches table.
PouleMatchesWithinPoules(ms) ==
  /\ \A i \in 1..Len(ms) :
       /\ ms[i].phase = "poule"
       /\ \E p \in 1..Len(poule_distribution) :
            /\ ms[i].team1 \in Members(p)
            /\ ms[i].team2 \in Members(p)
            /\ ms[i].poule_id = get_poule_id(poules, PouleLetters[p])
  /\ \A k \in 1..Len(teams) :
       /\ Cardinality({p \in 1..Len(poule_distribution) : teams[k] \in Members(p)}) = 1
       /\ Cardinality({ms[i].poule_id : i \in {j \in 1..Len(ms) :
                          teams[k] \in {ms[j].team1, ms[j].team2}}}) = 1

C7_MatchesWithinPoules ==
  (Generated("default_tournament") /\ err = "none") =>
    /\ PouleMatchesWithinPoules(returned)
    /\ generations = 1 => PouleMatchesWithinPoules(matches)

C7_Witness ==
  /\ Generated("default_tournament")
  /\ err = "none"
  /\ generations = 1
  /\ Len(poule_distribution) = 2
  /\ Len(matches) = 9

\* two rows of the matches table hold the same unordered pair in the same scope
DuplicatePair ==
  \E i, j \in 1..Len(matches) :
    /\ i < j
    /\ matches[i].phase = matches[j].phase
    /\ matches[i].poule_id = matches[j].poule_id
    /\ {matches[i].team1, matches[i].team2} = {matches[j].team1, matches[j].team2}

\* C8: generate_matches on a tournament that already has matches fails and leaves
\* the match list unchanged, so matches are created by at most one call and no
\* unordered pair occurs twice within the same poule/scope.
C8_GeneratedOnce ==
  /\ generations <= 1
  /\ ~DuplicatePair

\* some poule-phase match is unplayed, or there is no poule-phase match at all
PouleStageOpen(mtable) ==
  \/ \A i \in 1..Len(mtable) : mtable[i].phase # "poule"
  \/ \E i \in 1..Len(mtable) : mtable[i].phase = "poule" /\ ~is_played(mtable[i])

KnockoutRows(mtable) == {i \in 1..Len(mtable) : mtable[i].phase = "knockout"}

\* C9: generate_knockout_matches called while a poule match is unplayed, or while no
\* poule match exists, fails with an error and adds no knockout match.
C9_KnockoutNeedsPoulesPlayed ==
  [][(call'.op = "generate_knockout_matches" /\ PouleStageOpen(matches)) =>
       (err' = "ValueError" /\ returned' = <<>> /\ matches' = matches)]_vars

C9_Witness ==
  /\ call.op = "generate_knockout_matches"
  /\ err = "ValueError"
  /\ \E i \in 1..Len(matches) : is_played(matches[i])
  /\ \E i \in 1..Len(matches) : ~is_played(matches[i])

\* C10: once every poule match is played, generate_knockout_matches succeeds: it
\* returns a non-empty list of knockout-phase matches and the table holds them.
C10_KnockoutSucceeds ==
  (call.op = "generate_knockout_matches" /\ ~PouleStageOpen(matches)) =>
    /\ err = "none"
    /\ returned # <<>>
    /\ \A i \in 1..Len(returned) :
         /\ returned[i].phase = "knockout"
         /\ \E j \in KnockoutRows(matches) : matches[j] = returned[i]

LifecycleRank(mtable) ==
  IF mtable = <<>> THEN 0
  ELSE IF KnockoutRows(mtable) # {}
    THEN (IF \A i \in KnockoutRows(mtable) : is_played(mtable[i]) THEN 4 ELSE 3)
  ELSE IF PouleStageOpen(mtable) THEN 1
  ELSE 2

\* C12: over any sequence of generate_matches, score entry, edit, removal and
\* generate_knockout_matches on a poule-based tournament the lifecycle state never
\* moves backward, and whenever a knockout match exists every poule match is played
\* (stated for tournaments whose matches were created by a single generate_matches).
C12_ForwardOnly ==
  [][(tournament_type = "default_tournament" /\ generations' <= 1) =>
       /\ LifecycleRank(matches') >= LifecycleRank(matches)
       /\ KnockoutRows(matches') # {} => ~PouleStageOpen(matches')]_vars

\* the last operation was generate_knockout_bracket on n qualifiers
Seeded(n) == call.op = "generate_knockout_bracket" /\ Len(qualified) = n

\* the poule a qualifier of the seeded list comes from
QualifierPoule(team) ==
  LET k == CHOOSE i \in 1..Len(qualified) : qualified[i][1] = team IN qualified[k][2]

\* the returned matches as pairs of teams, in order
ReturnedPairs == [i \in 1..Len(returned) |-> <<returned[i].team1, returned[i].team2>>]

NoSamePouleMatch ==
  \A i \in 1..Len(returned) :
    QualifierPoule(returned[i].team1) # QualifierPoule(returned[i].team2)

\* C13: seeding 4 qualifiers of 2 poules (A: first T1, second T2; B: first T3, second
\* T4) yields exactly the matches T1 vs T4 and T3 vs T2, none within one poule.
C13_FourCrossPaired ==
  Seeded(4) =>
    /\ err = "none"
    /\ ReturnedPairs = << <<1, 4>>, <<3, 2>> >>
    /\ NoSamePouleMatch

\* C14: seeding 6 qualifiers yields exactly 2 matches, global rank 3 against 6 and
\* 4 against 5; the teams of global rank 1 and 2 are in no match.
C14_SixWithByes ==
  Seeded(6) =>
    /\ err = "none"
    /\ ReturnedPairs = << <<qualified[3][1], qualified[6][1]>>,
                          <<qualified[4][1], qualified[5][1]>> >>
    /\ \A i \in 1..Len(returned) :
         {returned[i].team1, returned[i].team2} \cap {qualified[1][1], qualified[2][1]} = {}

\* C15: seeding 8 qualifiers of 4 poules A..D (first and second of each) yields
\* exactly A1-D2, D1-A2, B1-C2, C1-B2 in that order, none within one poule.
C15_EightCrossPaired ==
  Seeded(8) =>
    /\ err = "none"
    /\ ReturnedPairs = << <<1, 8>>, <<7, 2>>, <<3, 6>>, <<5, 4>> >>
    /\ NoSamePouleMatch

\* the played poule-phase rows of poule p in which team t takes part
PlayedRowsOf(t, p) ==
  {i \in 1..Len(matches) :
     /\ matches[i].phase = "poule" /\ matches[i].poule_id = p /\ is_played(matches[i])
     /\ t \in {matches[i].team1, matches[i].team2}}

\* the teams that appear in a poule-phase row of poule p
PouleMembers(p) ==
  UNION {{matches[i].team1, matches[i].team2} :
           i \in {j \in 1..Len(matches) : matches[j].phase = "poule" /\ matches[j].poule_id = p}}

PouleWins(t, p) == Cardinality({i \in PlayedRowsOf(t, p) : winner(matches[i]) = t})

\* own score minus opponent's score of t in row i
RowBalance(t, i) ==
  IF matches[i].team1 = t THEN matches[i].team1_score - matches[i].team2_score
  ELSE matches[i].team2_score - matches[i].team1_score

RECURSIVE SumBalance(_, _)
SumBalance(t, I) ==
  IF I = {} THEN 0
  ELSE LET i == CHOOSE x \in I : TRUE IN RowBalance(t, i) + SumBalance(t, I \ {i})

\* team a ranks strictly below team b in poule p: fewer wins, or as many wins and a
\* smaller balance of sets
RanksBelow(a, b, p) ==
  \/ PouleWins(a, p) < PouleWins(b, p)
  \/ /\ PouleWins(a, p) = PouleWins(b, p)
     /\ SumBalance(a, PlayedRowsOf(a, p)) < SumBalance(b, PlayedRowsOf(b, p))

\* the entries of the qualifier list tagged with the name of poule p
QualifiersOf(p) == {i \in 1..Len(qualified) : qualified[i][2] = poules[p]}

\* generate_knockout_matches has just run with every poule match played
KnockoutRequested == call.op = "generate_knockout_matches" /\ ~PouleStageOpen(matches)

\* C16: the qualifier list handed to the bracket generator holds exactly two teams of
\* each poule, tagged with the poule's name, none of them ranked below a team of the
\* poule that is left out; each carries its wins and set balance in that poule; the
\* list is ordered best first by TeamStats and has length 2 x number of poules.
C16_TopTwoPerPoule ==
  KnockoutRequested =>
    /\ Len(qualified) = 2 * Len(poules)
    /\ \A i, j \in 1..Len(qualified) : i < j =>
         /\ qualified[i][1] # qualified[j][1]
         /\ ~stats_lt(qualified[i][3], qualified[j][3])
    /\ \A p \in 1..Len(poules) :
         /\ Cardinality(QualifiersOf(p)) = 2
         /\ \A i \in QualifiersOf(p) :
              /\ qualified[i][1] \in PouleMembers(p)
              /\ qualified[i][3].team = qualified[i][1]
              /\ qualified[i][3].wins = PouleWins(qualified[i][1], p)
              /\ sets_balance(qualified[i][3]) =
                   SumBalance(qualified[i][1], PlayedRowsOf(qualified[i][1], p))
              /\ \A t \in PouleMembers(p) \ {qualified[k][1] : k \in QualifiersOf(p)} :
                   ~RanksBelow(qualified[i][1], t, p)

C16_Witness ==
  /\ KnockoutRequested
  /\ Len(poules) = 2
  /\ Len(qualified) = 4
  /\ qualified[1][2] = "B"
  /\ qualified[2][2] = "A"
  /\ qualified[1][3].wins = 2

\* the lists that hold every member of a finite set exactly once
Orderings(S) ==
  {f \in [1..Cardinality(S) -> S] : \A i, j \in 1..Cardinality(S) : i # j => f[i] # f[j]}

\* the top two of poule p when its teams are supplied in the given order
TopTwo(order, p) ==
  take(calculate_poule_standings(order, select_poule(get_by_tournament(matches, "poule"), p)), 2)

\* C17: the qualifiers and their order do not depend on the order in which the teams
\* are supplied: for the same teams and the same results every order of the teams of a
\* poule gives the same top two, in the same order, also when TeamStats are equal.
C17_OrderIndependent ==
  KnockoutRequested =>
    \A p \in 1..Len(poules) :
      \A o1, o2 \in Orderings(PouleMembers(p)) : TopTwo(o1, p) = TopTwo(o2, p)

\* the played poule-phase rows of the matches table
PlayedRows == {i \in 1..Len(matches) : matches[i].phase = "poule" /\ is_played(matches[i])}

\* the played rows that one side won
DecidedRows == {i \in PlayedRows : winner(matches[i]) # None}

\* the played rows that reference a team missing from the roster
RowsOffRoster ==
  {i \in PlayedRows :
     {matches[i].team1, matches[i].team2} \ {roster[k] : k \in 1..Len(roster)} # {}}

RECURSIVE SumOf(_)
SumOf(seq) == IF seq = <<>> THEN 0 ELSE Head(seq) + SumOf(Tail(seq))

StandingsWins == SumOf([i \in 1..Len(standings_result) |-> standings_result[i][2].wins])

StandingsLosses == SumOf([i \in 1..Len(standings_result) |-> standings_result[i][2].losses])

\* C18: over the played matches of a scope (every match between two teams of the
\* roster) the wins of all teams add up to the losses of all teams, both equal to the
\* number of matches one side won; drawn matches add to neither. This holds for
\* calculate_poule_standings and for RoundRobinTournament.get_standings.
C18_WinsEqualLosses ==
  /\ (call.op = "calculate_poule_standings" /\ RowsOffRoster = {}) =>
       /\ StandingsWins = StandingsLosses
       /\ StandingsWins = Cardinality(DecidedRows)
  /\ call.op = "get_standings" =>
       /\ SumOf([i \in 1..Len(standings_result) |-> standings_result[i].Gewonnen])
            = SumOf([i \in 1..Len(standings_result) |-> standings_result[i].Verloren])
       /\ SumOf([i \in 1..Len(standings_result) |-> standings_result[i].Gewonnen])
            = Cardinality(DecidedRows)
       /\ SumOf([i \in 1..Len(standings_result) |-> standings_result[i].Gelijk])
            = 2 * Cardinality(PlayedRows \ DecidedRows)

C18_Witness ==
  /\ call.op = "calculate_poule_standings"
  /\ roster = teams
  /\ Cardinality(DecidedRows) = 2
  /\ Cardinality(PlayedRows \ DecidedRows) = 1
  /\ StandingsWins = 2
  /\ StandingsLosses = 2

\* C19: a played match that references a team absent from the roster makes
\* calculate_poule_standings fail with an error and return no standings; the match is
\* not skipped or counted for one side only.
C19_MissingTeamFails ==
  (call.op = "calculate_poule_standings" /\ RowsOffRoster # {}) =>
    (err = "ValueError" /\ standings_result = <<>>)

\* the sets of a row won by team1, by team2
SetsWonBy1(m) == Cardinality({k \in 1..Len(m.sets) : m.sets[k][1] > m.sets[k][2]})

SetsWonBy2(m) == Cardinality({k \in 1..Len(m.sets) : m.sets[k][2] > m.sets[k][1]})

\* what decides a row: its set wins when it has sets, else its aggregate scores
Tally(m) == IF m.sets # <<>> THEN <<SetsWonBy1(m), SetsWonBy2(m)>>
            ELSE <<m.team1_score, m.team2_score>>

\* C20: a match is played iff its set list is non-empty or both aggregate scores are
\* present; the winner of a played match is the team with strictly more set wins
\* (without sets: the strictly higher aggregate score) and the loser is the other
\* team; an unplayed or drawn match has neither winner nor loser.
C20_PlayedWinnerLoser ==
  \A i \in 1..Len(matches) :
    LET m == matches[i]
        played == m.sets # <<>> \/ (m.team1_score # None /\ m.team2_score # None)
    IN  /\ is_played(m) <=> played
        /\ (played /\ Tally(m)[1] > Tally(m)[2]) => (winner(m) = m.team1 /\ loser(m) = m.team2)
        /\ (played /\ Tally(m)[2] > Tally(m)[1]) => (winner(m) = m.team2 /\ loser(m) = m.team1)
        /\ (~played \/ Tally(m)[1] = Tally(m)[2]) => (winner(m) = None /\ loser(m) = None)

C20_Witness ==
  \E i, j, k \in 1..Len(matches) :
    /\ ~is_played(matches[i])
    /\ Len(matches[j].sets) = 2 /\ winner(matches[j]) = None /\ loser(matches[j]) = None
    /\ is_played(matches[k]) /\ winner(matches[k]) = matches[k].team2
    /\ loser(matches[k]) = matches[k].team1

\* winner and loser of a match as its two aggregate scores alone give them
ByScores(m) ==
  IF m.team1_score = None \/ m.team2_score = None \/ m.team1_score = m.team2_score
    THEN <<None, None>>
  ELSE IF m.team1_score > m.team2_score THEN <<m.team1, m.team2>>
  ELSE <<m.team2, m.team1>>

\* C21: a match saved with a per-set score list and loaded again has exactly the same
\* ordered list of (score1, score2) pairs; its stored aggregate scores are the set wins
\* of that list, so winner and loser derived from the sets are those derived from the
\* stored aggregate scores.
C21_SetsRoundTrip ==
  (call.op = "get_by_id" /\ reloaded.saved.sets # <<>>) =>
    /\ reloaded.loaded.sets = reloaded.saved.sets
    /\ reloaded.loaded.team1_score = SetsWonBy1(reloaded.saved)
    /\ reloaded.loaded.team2_score = SetsWonBy2(reloaded.saved)
    /\ <<winner(reloaded.loaded), loser(reloaded.loaded)>> = ByScores(reloaded.loaded)
    /\ matches[1] = reloaded.loaded

C21_Witness ==
  /\ call.op = "get_by_id"
  /\ reloaded.saved.sets = << <<11, 9>>, <<0, 11>> >>
  /\ reloaded.loaded.sets = << <<11, 9>>, <<0, 11>> >>
  /\ reloaded.loaded.team1_score = 1
  /\ winner(reloaded.loaded) = None

\* C22: for every num_teams >= 3 other than 5 and every teams_per_poule, no poule of
\* the distribution has 5 or more teams.
C22_NoPouleOfFive ==
  (call.op = "distribute_teams_into_poules" /\ call.num_teams >= 3 /\ call.num_teams # 5) =>
    \A i \in 1..Len(dist_result) : Len(dist_result[i]) < 5

\* the seeded list has exactly k poule labels with two qualifiers each
CleanlyGrouped(k) ==
  LET labels == {qualified[i][2] : i \in 1..Len(qualified)}
  IN  /\ Cardinality(labels) = k
      /\ \A l \in labels : Cardinality({i \in 1..Len(qualified) : qualified[i][2] = l}) = 2

\* rank i against rank n+1-i for the first half of the seeded list
RankPairs ==
  [i \in 1..(Len(qualified) \div 2) |->
     <<qualified[i][1], qualified[Len(qualified) + 1 - i][1]>>]

\* C23: 4 (resp. 8) qualifiers that are not 2 (resp. 4) poule labels with two
\* qualifiers each are paired by global rank: 1 vs 4 and 2 vs 3 (resp. 1 vs 8, 2 vs 7,
\* 3 vs 6, 4 vs 5).
C23_RankFallback ==
  /\ (Seeded(4) /\ ~CleanlyGrouped(2)) => (err = "none" /\ ReturnedPairs = RankPairs)
  /\ (Seeded(8) /\ ~CleanlyGrouped(4)) => (err = "none" /\ ReturnedPairs = RankPairs)

\* the returned matches in which a team takes part
MatchesOf(team) ==
  {i \in 1..Len(returned) : team \in {returned[i].team1, returned[i].team2}}

\* C28: for every qualifier list every qualifier is in at most one returned match and
\* no match pairs a team with itself; for an even number of qualifiers other than 6
\* every qualifier is in exactly one match.
C28_EachQualifierOnce ==
  call.op = "generate_knockout_bracket" =>
    /\ \A i \in 1..Len(returned) : returned[i].team1 # returned[i].team2
    /\ \A k \in 1..Len(qualified) : Cardinality(MatchesOf(qualified[k][1])) <= 1
    /\ (Len(qualified) % 2 = 0 /\ Len(qualified) # 6) =>
         \A k \in 1..Len(qualified) : Cardinality(MatchesOf(qualified[k][1])) = 1

\* C24: generate_knockout_round on n winners returns floor(n/2) knockout-phase matches,
\* the i-th pairing the i-th winner with the (n-1-i)-th (0-based); every winner is in
\* at most one match, none plays itself, the middle winner of an odd-length list is in
\* no match, and fewer than 2 winners give no match.
C24_TopAgainstBottom ==
  call.op = "generate_knockout_round" =>
    LET n == Len(winners) IN
    /\ Len(returned) = n \div 2
    /\ n < 2 => returned = <<>>
    /\ \A i \in 1..Len(returned) :
         /\ returned[i].phase = "knockout"
         /\ returned[i].team1 = winners[i]
         /\ returned[i].team2 = winners[n + 1 - i]
         /\ returned[i].team1 # returned[i].team2
    /\ \A k \in 1..n : Cardinality(MatchesOf(winners[k])) <= 1
    /\ n % 2 = 1 => MatchesOf(winners[(n + 1) \div 2]) = {}

C24_Witness ==
  /\ call.op = "generate_knockout_round"
  /\ winners = <<3, 1, 4>>
  /\ Len(returned) = 1
  /\ returned[1].team1 = 3
  /\ returned[1].team2 = 4

\* the ranking key of a TeamStats: wins, sets balance, points balance
RankKey(st) ==
  <<st.wins, st.sets_won - st.sets_lost, st.points_for - st.points_against>>

\* key x is strictly worse than key y in the lexicographic order
KeyWorse(x, y) ==
  \/ x[1] < y[1]
  \/ x[1] = y[1] /\ x[2] < y[2]
  \/ x[1] = y[1] /\ x[2] = y[2] /\ x[3] < y[3]

SetPointsOf(m, side) == SumOf([k \in 1..Len(m.sets) |-> m.sets[k][side]])

\* the per-set points a team scored (own = TRUE) or conceded (own = FALSE) over the
\* played poule-phase rows of the matches table
PointsOver(t, own) ==
  SumOf([i \in 1..Len(matches) |->
           IF i \notin PlayedRows THEN 0
           ELSE IF matches[i].team1 = t THEN SetPointsOf(matches[i], IF own THEN 1 ELSE 2)
           ELSE IF matches[i].team2 = t THEN SetPointsOf(matches[i], IF own THEN 2 ELSE 1)
           ELSE 0])

\* C26: with per-set scores, points_for and points_against of every team are the
\* per-set points it scored and conceded over its played matches, an axis apart from
\* sets won and lost, so that teams equal on wins and sets balance are ranked by their
\* points balance.
C26_PointsAccumulate ==
  (call.op = "calculate_poule_standings" /\ roster = teams) =>
    \A i \in 1..Len(standings_result) :
      /\ standings_result[i][2].points_for = PointsOver(standings_result[i][1], TRUE)
      /\ standings_result[i][2].points_against = PointsOver(standings_result[i][1], FALSE)

\* C27: a scope with teams and no played match has standings that list every team of
\* the scope with all-zero stats, and only a scope without teams has empty standings:
\* for calculate_poule_standings over its roster, for the round-robin standings over
\* the tournament's teams, and for the per-poule view of a default tournament over the
\* teams of its generated poules.
C27_ZeroStatsForAll ==
  PlayedRows = {} =>
    /\ call.op = "calculate_poule_standings" =>
         /\ Len(standings_result) = Len(roster)
         /\ \A k \in 1..Len(roster) :
              \E i \in 1..Len(standings_result) :
                /\ standings_result[i][1] = roster[k]
                /\ standings_result[i][2] = TeamStats(roster[k])
    /\ call.op = "get_standings" =>
         /\ Len(standings_result) = Len(roster)
         /\ \A k \in 1..Len(roster) :
              \E i \in 1..Len(standings_result) :
                standings_result[i] = get_standings_row(get_standings_init(roster[k]))
    /\ call.op = "_get_poule_standings" =>
         \A p \in 1..Len(poules) : \A t \in PouleMembers(p) :
           \E i \in 1..Len(standings_result) :
             /\ standings_result[i].Poule = poules[p]
             /\ standings_result[i].Team = t
             /\ standings_result[i].Gewonnen = 0
             /\ standings_result[i].Verloren = 0
             /\ standings_result[i].Saldo = 0

\* the poule-phase rows of poule p
PouleRows(p) == {i \in 1..Len(matches) : matches[i].phase = "poule" /\ matches[i].poule_id = p}

\* poule p has matches and every one of them is played
FullyPlayed(p) == PouleRows(p) # {} /\ \A i \in PouleRows(p) : is_played(matches[i])

\* the teams of poule p, in the order of the team list
RECURSIVE PouleRoster(_, _)
PouleRoster(ts, p) ==
  IF ts = <<>> THEN <<>>
  ELSE IF Head(ts) \in PouleMembers(p) THEN <<Head(ts)>> \o PouleRoster(Tail(ts), p)
  ELSE PouleRoster(Tail(ts), p)

\* the positions of the per-poule view that belong to poule p
ViewRows(p) == {i \in 1..Len(standings_result) : standings_result[i].Poule = poules[p]}

\* the per-poule view agrees with calculate_poule_standings on poule p: the same teams,
\* each once, and every two teams that differ on wins or on balance in the same order
ViewAgrees(p) ==
  LET ref == calculate_poule_standings(PouleRoster(teams, p),
                                       select_poule(get_by_tournament(matches, "poule"), p))
  IN  /\ Cardinality(ViewRows(p)) = Len(ref)
      /\ \A i \in 1..Len(ref) : \E v \in ViewRows(p) : standings_result[v].Team = ref[i][1]
      /\ \A i, j \in 1..Len(ref) :
           (/\ i < j
            /\ \/ ref[i][2].wins # ref[j][2].wins
               \/ sets_balance(ref[i][2]) # sets_balance(ref[j][2]))
           => \E v, w \in ViewRows(p) :
                /\ v < w
                /\ standings_result[v].Team = ref[i][1]
                /\ standings_result[w].Team = ref[j][1]

\* C30: for a poule whose matches are all played, the per-poule standings view of a
\* default tournament lists the same teams as calculate_poule_standings and ranks
\* every two teams that differ on wins or on balance in the same relative order.
C30_ViewRefinesStandings ==
  call.op = "_get_poule_standings" =>
    \A p \in 1..Len(poules) : FullyPlayed(p) => ViewAgrees(p)

\* the view has run on a fully played poule of three teams with three different win
\* counts
C30_Witness ==
  /\ call.op = "_get_poule_standings"
  /\ \E p \in 1..Len(poules) :
       /\ FullyPlayed(p)
       /\ Cardinality(ViewRows(p)) = 3
       /\ \A v, w \in ViewRows(p) :
            v # w => standings_result[v].Gewonnen # standings_result[w].Gewonnen

\* C29: with two sessions interleaving the match-list check and the generation, no
\* state has two poule-phase matches of the same poule for the same unordered pair
\* of teams.
C29_NoDuplicatePairUnderRace ==
  \A i, j \in 1..Len(matches) :
    (/\ i < j
     /\ matches[i].phase = "poule" /\ matches[j].phase = "poule"
     /\ matches[i].poule_id = matches[j].poule_id)
    => {matches[i].team1, matches[i].team2} # {matches[j].team1, matches[j].team2}

====
